---- MODULE Spec2Model ----
(***************************************************************************)
(* Model of planning.py (GEOM4009 planning project): the hexagonal grid    *)
(* generation (create_hexgrid, create_hexagon, create_planning_unit_grid)  *)
(* and the parallel overlap computation (calculate, calculate_overlap).    *)
(*                                                                         *)
(* Coordinates.  The hexagon edge computed at planning.py:181 is           *)
(*     edge = sqrt(Area**2 / (3/2*sqrt(3))) = |Area| / sqrt(K),            *)
(* K = 3*sqrt(3)/2.  Lengths along x are counted in the unit               *)
(* u = 1/(2*sqrt(K)), so that edge = 2*|Area| is an even integer and       *)
(* h_step = 1.5*edge is an integer.  Lengths along y are counted in the    *)
(* unit (sqrt(3)/2)*u, so that v_step = sqrt(3)*edge = 2*edge and          *)
(* sin(60 deg)*edge = edge are integers.  x and y never mix in the code,   *)
(* so the arithmetic of the source is exact in these units.  An area of    *)
(* one square metre is 4*K*u^2, that is 12 unit rectangles u x (sqrt(3)/2)u*)
(* and 24 half rectangles (the unit the shoelace sum counts).              *)
(***************************************************************************)
EXTENDS Integers, Sequences, FiniteSets, Bags, TLC

VARIABLES
    \* ---- create_planning_unit_grid / create_hexgrid ----
    gpc,                 \* position in create_planning_unit_grid
    bbx,                 \* box = total_bounds, <<x0, y0, x1, y1>>
    Area,                \* the user's "Grid Cell Area"
    edge,                \* edge computed at line 181 / 238
    hex_centers,         \* list "grid" of create_hexgrid
    c_x, c_y,            \* loop variables of create_hexgrid
    v_start_idx,         \* parity toggle of create_hexgrid
    planning_unit_grid,  \* the GeoDataFrame built at lines 184-189
    gerr                 \* exception raised by the grid creation, or "none"

gridVars == <<gpc, bbx, Area, edge, hex_centers, c_x, c_y, v_start_idx,
              planning_unit_grid, gerr>>

VARIABLES
    \* ---- calculate_overlap / calculate ----
    pc,                       \* position of the caller in calculate_overlap
    planning_grid,            \* argument: the grid, a sequence of cells
    cons_layers,              \* argument: the list of layers
    CORES,                    \* the global CORES; 0 stands for None
    failing,                  \* the (partition, layer) pairs whose geometry
                              \* operation raises (property of the input data)
    planning_grid_divisions,  \* result of np.array_split
    taskq,                    \* tasks of imap_unordered not yet taken
    worker,                   \* the processes of the Pool
    outq,                     \* results sent back, in completion order
    intersections,            \* the list extended by the caller
    consumed,                 \* partitions whose result the caller consumed
    retval,                   \* the value returned by calculate_overlap
    err,                      \* exception raised to the caller, or "none"
    log                       \* bag of the messages of print_warning_msg

engineVars == <<pc, planning_grid, cons_layers, CORES, failing,
                planning_grid_divisions, taskq, worker, outq, intersections,
                consumed, retval, err, log>>

VARIABLES
    \* ---- main_menu ----
    mpc,                      \* position in main_menu
    menu_grid,                \* planning_unit_grid of main_menu
    conserv_layers,           \* the loaded layers
    filtered_conserv_layers,  \* the layers after Select Conservation Features
    query_layers,             \* filtered_conserv_layers inside
                              \* query_conservation_layers
    intersections_gdf,        \* the last value of calculate_overlap
    intersections_df,         \* the table that Save Results exports
    saved,                    \* the rows of the last csv written
    menu_msg                  \* the last warning or exception of the menu

menuVars == <<mpc, menu_grid, conserv_layers, filtered_conserv_layers,
              query_layers, intersections_gdf, intersections_df, saved,
              menu_msg>>

vars == <<gridVars, engineVars, menuVars>>

\* ------------------------------------------------------------------------
\* Bounds
\* ------------------------------------------------------------------------
MaxCoord == 2
MaxArea == 2

Coords == (0 - MaxCoord)..MaxCoord
Areas == (0 - 1)..MaxArea

\* ------------------------------------------------------------------------
\* Arithmetic helpers
\* ------------------------------------------------------------------------
Abs(a) == IF a < 0 THEN 0 - a ELSE a
Min(a, b) == IF a < b THEN a ELSE b
Max(a, b) == IF a > b THEN a ELSE b

\* math.ceil(a / b) for b > 0
Ceil(a, b) == 0 - ((0 - a) \div b)

\* ------------------------------------------------------------------------
\* create_hexagon
\* ------------------------------------------------------------------------
Angles == <<0, 60, 120, 180, 240, 300>>

\* 2*cos(angle) and sin(angle)/sin(60) for the six angles of range(0,360,60)
Cos2(angle) ==
    CASE angle = 0 -> 2 [] angle = 60 -> 1 [] angle = 120 -> 0 - 1
      [] angle = 180 -> 0 - 2 [] angle = 240 -> 0 - 1 [] angle = 300 -> 1

SinU(angle) ==
    CASE angle = 0 -> 0 [] angle = 60 -> 1 [] angle = 120 -> 1
      [] angle = 180 -> 0 [] angle = 240 -> 0 - 1 [] angle = 300 -> 0 - 1

create_hexagon(l, x, y) ==
    [k \in 1..Len(Angles) |->
        <<x + (Cos2(Angles[k]) * l) \div 2, y + SinU(Angles[k]) * l>>]

\* ------------------------------------------------------------------------
\* create_hexgrid: the values computed before the loops
\* ------------------------------------------------------------------------
v_step(side) == 2 * side
h_step(side) == (3 * side) \div 2

x_min(b) == Min(b[1], b[3])
x_max(b) == Max(b[1], b[3])
y_min(b) == Min(b[2], b[4])
y_max(b) == Max(b[2], b[4])

h_skip_floor(b, side) == (x_min(b) \div h_step(side)) - 1

h_skip(b, side) == Ceil(x_min(b), h_step(side)) - 1
h_start(b, side) == h_skip(b, side) * h_step(side)

v_skip(b, side) == Ceil(y_min(b), v_step(side)) - 1
v_start(b, side) == v_skip(b, side) * v_step(side)

h_end_minus(b, side) == x_max(b) - h_step(side)

h_end(b, side) == x_max(b) + h_step(side)
v_end(b, side) == y_max(b) + v_step(side)

v_start_array_flat(b, side) == <<v_start(b, side), v_start(b, side)>>

\* the Python list v_start_array; Python index i is TLA+ index i + 1
v_start_array(b, side) ==
    IF v_start(b, side) - (v_step(side) \div 2) < y_min(b)
    THEN <<v_start(b, side) + (v_step(side) \div 2), v_start(b, side)>>
    ELSE <<v_start(b, side) - (v_step(side) \div 2), v_start(b, side)>>

v_start_idx0_zero(b, side) == 0

v_start_idx0(b, side) == Abs(h_skip(b, side)) % 2

Toggle_stuck(idx) == idx

\* v_start_idx = (v_start_idx + 1) % 2
Toggle(idx) == (idx + 1) % 2

\* ------------------------------------------------------------------------
\* create_planning_unit_grid, selections 1 and 3
\* ------------------------------------------------------------------------
\* edge = math.sqrt(Area**2 / (3 / 2 * math.sqrt(3))), in units u
EdgeOf(A) == 2 * Abs(A)

AssignPUID_index(index) == index

\* planning_unit_grid["PUID"] = planning_unit_grid.index + 1
AssignPUID(index) == index + 1

\* gpd.GeoDataFrame(geometry=hexagons) with the PUID column; the index of
\* the i-th row (counted from 1) is i - 1
BuildFrame(l, centers) ==
    [i \in 1..Len(centers) |->
        [geometry |-> create_hexagon(l, centers[i][1], centers[i][2]),
         PUID |-> AssignPUID(i - 1)]]

\* lines 181-182 and 83-109: the edge, then the set-up of create_hexgrid.
\* With edge = 0 the division x_min / h_step at line 91 raises.
HexgridStart ==
    /\ gpc = "input"
    /\ edge' = EdgeOf(Area)
    /\ IF h_step(edge') = 0
       THEN /\ gpc' = "raised"
            /\ gerr' = "ZeroDivisionError"
            /\ UNCHANGED <<c_x, c_y, v_start_idx>>
       ELSE /\ gpc' = "loop"
            /\ gerr' = gerr
            /\ c_x' = h_start(bbx, edge')
            /\ c_y' = v_start_array(bbx, edge')[v_start_idx0(bbx, edge') + 1]
            /\ v_start_idx' = Toggle(v_start_idx0(bbx, edge'))
    /\ UNCHANGED <<bbx, Area, hex_centers, planning_unit_grid>>

\* lines 111-113: one iteration of the inner loop
HexgridInner ==
    /\ gpc = "loop"
    /\ c_x < h_end(bbx, edge)
    /\ c_y < v_end(bbx, edge)
    /\ hex_centers' = Append(hex_centers, <<c_x, c_y>>)
    /\ c_y' = c_y + v_step(edge)
    /\ UNCHANGED <<gpc, bbx, Area, edge, c_x, v_start_idx, planning_unit_grid, gerr>>

\* lines 114-116: the inner loop is over, next column
HexgridNextColumn ==
    /\ gpc = "loop"
    /\ c_x < h_end(bbx, edge)
    /\ ~(c_y < v_end(bbx, edge))
    /\ c_x' = c_x + h_step(edge)
    /\ c_y' = v_start_array(bbx, edge)[v_start_idx + 1]
    /\ v_start_idx' = Toggle(v_start_idx)
    /\ UNCHANGED <<gpc, bbx, Area, edge, hex_centers, planning_unit_grid, gerr>>

\* line 118, then lines 184-189: the hexagons and their PUID
HexgridReturn ==
    /\ gpc = "loop"
    /\ ~(c_x < h_end(bbx, edge))
    /\ planning_unit_grid' = BuildFrame(edge, hex_centers)
    /\ gpc' = "done"
    /\ UNCHANGED <<bbx, Area, edge, hex_centers, c_x, c_y, v_start_idx, gerr>>

GridNext ==
    \/ HexgridStart /\ UNCHANGED <<engineVars, menuVars>>
    \/ HexgridInner /\ UNCHANGED <<engineVars, menuVars>>
    \/ HexgridNextColumn /\ UNCHANGED <<engineVars, menuVars>>
    \/ HexgridReturn /\ UNCHANGED <<engineVars, menuVars>>

\* ------------------------------------------------------------------------
\* Geometry of the overlap computation.  A geometry is a closed set of
\* elements of a line: an odd number 2k - 1 is the open unit interval
\* number k, of area 1/2, and an even number 2k is the point between the
\* intervals k and k + 1, of area 0.  Two geometries that share points only
\* touch; an intersection with an interval is polygonal.  The convex hull
\* of a geometry is everything it spans.
\* ------------------------------------------------------------------------
MaxCells == 3
MaxLayers == 2
MaxCores == 2
CellWidth == 3

SetMin(S) == CHOOSE a \in S : \A b \in S : a <= b
SetMax(S) == CHOOSE a \in S : \A b \in S : a >= b

\* GeoSeries.convex_hull of one geometry
convex_hull(geom) == IF geom = {} THEN {} ELSE SetMin(geom)..SetMax(geom)

\* GeoSeries.area, in halves
AreaHalves(geom) == Cardinality({e \in geom : e % 2 = 1})

\* the geometry has the type of the cells (Polygon, MultiPolygon)
IsPolygonal(geom) == \E e \in geom : e % 2 = 1

\* Series.round().astype(int): numpy rounds halves to the even neighbour
RoundHalves(h) ==
    IF h % 2 = 0 THEN h \div 2
    ELSE IF ((h - 1) \div 2) % 2 = 0 THEN (h - 1) \div 2 ELSE (h + 1) \div 2

\* the cells of a grid: cell i covers CellWidth consecutive intervals and
\* their end points, so that neighbouring cells touch
CellGeom(i) == (2 * (i - 1) * CellWidth)..(2 * i * CellWidth)
GridOf(n) == [i \in 1..n |-> [PUID |-> i, geometry |-> CellGeom(i)]]

\* the features and layers the inputs are drawn from
Fa == [ID |-> 1, CLASS_TYPE |-> "bird", GROUP_ |-> "fauna", NAME |-> "a",
       geometry |-> 0..2]
Fb == [ID |-> 2, CLASS_TYPE |-> "tree", GROUP_ |-> "flora", NAME |-> "b",
       geometry |-> 2..10]
Fc == [ID |-> 3, CLASS_TYPE |-> "bird", GROUP_ |-> "fauna", NAME |-> "c",
       geometry |-> (4..6) \cup (12..14)]
Fd == [ID |-> 4, CLASS_TYPE |-> "tree", GROUP_ |-> "flora", NAME |-> "d",
       geometry |-> 6..12]
LayerChoices == {<<>>, <<Fa, Fb>>, <<Fc>>, <<Fd>>}

RECURSIVE Flatten(_)
Flatten(ss) == IF ss = <<>> THEN <<>> ELSE Head(ss) \o Flatten(Tail(ss))

\* ------------------------------------------------------------------------
\* calculate: the work of one worker on one partition
\* ------------------------------------------------------------------------
IsEmpty_never(frame) == Len(frame) < 0

\* layer.empty
IsEmpty(frame) == Len(frame) = 0

ClipMask_first(layer) == convex_hull(layer[1].geometry)

\* the mask of gpd.clip: the union of the hulls of the layer's features
ClipMask(layer) ==
    UNION {convex_hull(layer[j].geometry) : j \in DOMAIN layer}

\* gpd.clip(planning_grid, mask): the rows that meet the mask, cut to it
clip(gdf, mask) ==
    SelectSeq([i \in DOMAIN gdf |->
                  [gdf[i] EXCEPT !.geometry = @ \cap mask]],
              LAMBDA c : c.geometry # {})

KeepRow_nonzero(r) == r.AMOUNT > 0

\* keep_geom_type of gpd.overlay (True by default): a row is kept when its
\* intersection is polygonal; rows of pairs that only touch are dropped
KeepRow(r) == IsPolygonal(r.geometry)

\* gpd.overlay(clipped_grid, layer, how="intersection") followed by the
\* AMOUNT column of lines 628-629
overlay(df1, df2) ==
    Flatten([i \in DOMAIN df1 |->
        SelectSeq([j \in DOMAIN df2 |->
                      [PUID |-> df1[i].PUID, ID |-> df2[j].ID,
                       geometry |-> df1[i].geometry \cap df2[j].geometry,
                       AMOUNT |-> RoundHalves(AreaHalves(
                                     df1[i].geometry \cap df2[j].geometry))]],
                  LAMBDA r : KeepRow(r))])

\* lines 624-629 for one layer
CalcLayer(part, layer) == overlay(clip(part, ClipMask(layer)), layer)

\* calculate() run to its end without an exception
RECURSIVE calculate(_, _)
calculate(part, layers) ==
    IF layers = <<>> THEN <<>>
    ELSE IF IsEmpty(Head(layers)) THEN calculate(part, Tail(layers))
    ELSE <<CalcLayer(part, Head(layers))>> \o calculate(part, Tail(layers))

\* ------------------------------------------------------------------------
\* calculate_overlap
\* ------------------------------------------------------------------------
\* np.array_split(ary, Nsections): the first Ntotal % Nsections sections
\* have one element more
section_sizes_floor(Ntotal, Nsections) ==
    [i \in 1..Nsections |-> Ntotal \div Nsections]

section_sizes(Ntotal, Nsections) ==
    [i \in 1..Nsections |->
        IF i <= Ntotal % Nsections
        THEN Ntotal \div Nsections + 1 ELSE Ntotal \div Nsections]

RECURSIVE SumTo(_, _)
SumTo(f, i) == IF i = 0 THEN 0 ELSE f[i] + SumTo(f, i - 1)

array_split(ary, Nsections) ==
    LET sizes == section_sizes(Len(ary), Nsections)
    IN [i \in 1..Nsections |->
           SubSeq(ary, SumTo(sizes, i - 1) + 1, SumTo(sizes, i))]

Extend_overwrite(list, result) == result

\* intersections.extend(result)
Extend(list, result) == list \o result

Exhausted_first(nconsumed, ntasks) == nconsumed >= 1

\* the iterator of imap_unordered is exhausted
Exhausted(nconsumed, ntasks) == nconsumed = ntasks

IdleWorker == [state |-> "idle", part |-> 0, li |-> 0, out |-> <<>>]

Msg(kind, p, l) == SetToBag({<<kind, p, l>>})

InputSeqs(S, n) == UNION {[1..k -> S] : k \in 0..n}

\* lines 660-662
ReturnNoLayers ==
    /\ pc = "idle"
    /\ ~(Len(cons_layers) # 0)
    /\ log' = log (+) Msg("NoLayers", 0, 0)
    /\ retval' = <<>>
    /\ pc' = "returned"
    /\ UNCHANGED <<planning_grid, cons_layers, CORES, failing,
                   planning_grid_divisions, taskq, worker, outq,
                   intersections, consumed, err>>

\* lines 663-665
ReturnNoGrid ==
    /\ pc = "idle"
    /\ Len(cons_layers) # 0
    /\ IsEmpty(planning_grid)
    /\ log' = log (+) Msg("NoGrid", 0, 0)
    /\ retval' = <<>>
    /\ pc' = "returned"
    /\ UNCHANGED <<planning_grid, cons_layers, CORES, failing,
                   planning_grid_divisions, taskq, worker, outq,
                   intersections, consumed, err>>

\* line 668 with CORES = None: np.array_split raises
SplitRaises ==
    /\ pc = "idle"
    /\ Len(cons_layers) # 0
    /\ ~IsEmpty(planning_grid)
    /\ CORES < 1
    /\ err' = "TypeError"
    /\ pc' = "raised"
    /\ UNCHANGED <<planning_grid, cons_layers, CORES, failing,
                   planning_grid_divisions, taskq, worker, outq,
                   intersections, consumed, retval, log>>

\* lines 668-686: split, create the Pool, submit one task per division
Dispatch ==
    /\ pc = "idle"
    /\ Len(cons_layers) # 0
    /\ ~IsEmpty(planning_grid)
    /\ CORES >= 1
    /\ planning_grid_divisions' = array_split(planning_grid, CORES)
    /\ intersections' = <<>>
    /\ worker' = [w \in 1..CORES |-> IdleWorker]
    /\ taskq' = [i \in 1..Len(planning_grid_divisions') |-> i]
    /\ pc' = "iterating"
    /\ UNCHANGED <<planning_grid, cons_layers, CORES, failing, outq,
                   consumed, retval, err, log>>

\* a process of the Pool takes the next task
WorkerGet(w) ==
    /\ pc = "iterating"
    /\ worker[w].state = "idle"
    /\ taskq # <<>>
    /\ worker' = [worker EXCEPT ![w] =
                    [state |-> "busy", part |-> Head(taskq), li |-> 1,
                     out |-> <<>>]]
    /\ taskq' = Tail(taskq)
    /\ UNCHANGED <<pc, planning_grid, cons_layers, CORES, failing,
                   planning_grid_divisions, outq, intersections, consumed,
                   retval, err, log>>

\* lines 622-632: one iteration of the loop over the layers.  An exception
\* of clip / overlay / area is not caught in calculate: the Pool sends it
\* back in place of the result.
WorkerLayer(w) ==
    /\ pc = "iterating"
    /\ worker[w].state = "busy"
    /\ worker[w].li <= Len(cons_layers)
    /\ LET p == worker[w].part
           l == worker[w].li
           layer == cons_layers[l]
       IN IF IsEmpty(layer)
          THEN /\ log' = log (+) Msg("EmptyLayer", p, l)
               /\ worker' = [worker EXCEPT ![w].li = l + 1]
               /\ outq' = outq
          ELSE IF <<p, l>> \in failing
          THEN /\ outq' = Append(outq, [part |-> p, ok |-> FALSE, value |-> <<>>])
               /\ worker' = [worker EXCEPT ![w] = IdleWorker]
               /\ log' = log
          ELSE /\ worker' = [worker EXCEPT
                               ![w].li = l + 1,
                               ![w].out = Append(@,
                                   CalcLayer(planning_grid_divisions[p], layer))]
               /\ outq' = outq
               /\ log' = log
    /\ UNCHANGED <<pc, planning_grid, cons_layers, CORES, failing,
                   planning_grid_divisions, taskq, intersections, consumed,
                   retval, err>>

\* line 633: calculate returns, the Pool sends the list back
WorkerReturn(w) ==
    /\ pc = "iterating"
    /\ worker[w].state = "busy"
    /\ worker[w].li > Len(cons_layers)
    /\ outq' = Append(outq, [part |-> worker[w].part, ok |-> TRUE,
                             value |-> worker[w].out])
    /\ worker' = [worker EXCEPT ![w] = IdleWorker]
    /\ UNCHANGED <<pc, planning_grid, cons_layers, CORES, failing,
                   planning_grid_divisions, taskq, intersections, consumed,
                   retval, err, log>>

\* lines 685-688: the caller receives the next finished result; a result
\* that is an exception is re-raised in the caller and leaves the function
\* through the "with" block, which terminates the Pool
Consume ==
    /\ pc = "iterating"
    /\ outq # <<>>
    /\ LET r == Head(outq)
       IN IF r.ok
          THEN /\ intersections' = Extend(intersections, r.value)
               /\ consumed' = Append(consumed, r.part)
               /\ UNCHANGED <<pc, err>>
          ELSE /\ pc' = "raised"
               /\ err' = "GeometryError"
               /\ UNCHANGED <<intersections, consumed>>
    /\ outq' = Tail(outq)
    /\ UNCHANGED <<planning_grid, cons_layers, CORES, failing,
                   planning_grid_divisions, taskq, worker, retval, log>>

\* line 696: the loop over imap_unordered is over
Return ==
    /\ pc = "iterating"
    /\ Exhausted(Len(consumed), Len(planning_grid_divisions))
    /\ retval' = intersections
    /\ pc' = "returned"
    /\ UNCHANGED <<planning_grid, cons_layers, CORES, failing,
                   planning_grid_divisions, taskq, worker, outq,
                   intersections, consumed, err, log>>

EngineNext ==
    \/ ReturnNoLayers /\ UNCHANGED <<gridVars, menuVars>>
    \/ ReturnNoGrid /\ UNCHANGED <<gridVars, menuVars>>
    \/ SplitRaises /\ UNCHANGED <<gridVars, menuVars>>
    \/ Dispatch /\ UNCHANGED <<gridVars, menuVars>>
    \/ \E w \in 1..MaxCores : w \in DOMAIN worker /\ WorkerGet(w) /\ UNCHANGED <<gridVars, menuVars>>
    \/ \E w \in 1..MaxCores : w \in DOMAIN worker /\ WorkerLayer(w) /\ UNCHANGED <<gridVars, menuVars>>
    \/ \E w \in 1..MaxCores : w \in DOMAIN worker /\ WorkerReturn(w) /\ UNCHANGED <<gridVars, menuVars>>
    \/ Consume /\ UNCHANGED <<gridVars, menuVars>>
    \/ Return /\ UNCHANGED <<gridVars, menuVars>>

\* the arguments of calculate_overlap; no grid is being created
EngineInit ==
    /\ pc = "idle"
    /\ planning_grid \in {GridOf(n) : n \in 0..MaxCells}
    /\ cons_layers \in InputSeqs(LayerChoices, MaxLayers)
    /\ CORES \in 0..MaxCores
    /\ failing \in {{}} \cup
          {{<<p, l>>} : p \in 1..CORES,
                        l \in {k \in DOMAIN cons_layers : ~IsEmpty(cons_layers[k])}}
    /\ planning_grid_divisions = <<>>
    /\ taskq = <<>>
    /\ worker = <<>>
    /\ outq = <<>>
    /\ intersections = <<>>
    /\ consumed = <<>>
    /\ retval = <<>>
    /\ err = "none"
    /\ log = EmptyBag
    /\ gpc = "input"
    /\ bbx = <<0, 0, 0, 0>>
    /\ Area = 1
    /\ edge = 0
    /\ hex_centers = <<>>
    /\ c_x = 0
    /\ c_y = 0
    /\ v_start_idx = 0
    /\ planning_unit_grid = <<>>
    /\ gerr = "none"
    /\ mpc = "off"
    /\ menu_grid = <<>>
    /\ conserv_layers = <<>>
    /\ filtered_conserv_layers = <<>>
    /\ query_layers = <<>>
    /\ intersections_gdf = <<>>
    /\ intersections_df = <<>>
    /\ saved = <<>>
    /\ menu_msg = "none"

SpecOverlap == EngineInit /\ [][EngineNext]_vars

\* the inputs of create_planning_unit_grid; calculate_overlap is not called
GridInit ==
    /\ gpc = "input"
    /\ bbx \in Coords \X Coords \X Coords \X Coords
    /\ Area \in Areas
    /\ edge = 0
    /\ hex_centers = <<>>
    /\ c_x = 0
    /\ c_y = 0
    /\ v_start_idx = 0
    /\ planning_unit_grid = <<>>
    /\ gerr = "none"
    /\ pc = "idle"
    /\ planning_grid = <<>>
    /\ cons_layers = <<>>
    /\ CORES = 1
    /\ failing = {}
    /\ planning_grid_divisions = <<>>
    /\ taskq = <<>>
    /\ worker = <<>>
    /\ outq = <<>>
    /\ intersections = <<>>
    /\ consumed = <<>>
    /\ retval = <<>>
    /\ err = "none"
    /\ log = EmptyBag
    /\ mpc = "off"
    /\ menu_grid = <<>>
    /\ conserv_layers = <<>>
    /\ filtered_conserv_layers = <<>>
    /\ query_layers = <<>>
    /\ intersections_gdf = <<>>
    /\ intersections_df = <<>>
    /\ saved = <<>>
    /\ menu_msg = "none"

SpecGrid == GridInit /\ [][GridNext]_vars

\* create_planning_unit_grid is sequential code: while a statement is left
\* to execute, it is executed
SpecGridFair == GridInit /\ [][GridNext]_vars /\ WF_vars(GridNext)

\* the overlap record (cell id, feature id, rounded area) of a row
RecordOf(r) == <<r.PUID, r.ID, r.AMOUNT>>

\* ------------------------------------------------------------------------
\* main_menu
\* ------------------------------------------------------------------------
\* the largest number of files loaded at once
MaxFiles == 1

\* the columns offered by query_conservation_layers
QueryColumns == {"ID", "CLASS_TYPE", "GROUP_", "NAME"}

Column(row, col) ==
    CASE col = "ID" -> <<"ID", row.ID>>
      [] col = "CLASS_TYPE" -> <<"CLASS_TYPE", row.CLASS_TYPE>>
      [] col = "GROUP_" -> <<"GROUP_", row.GROUP_>>
      [] col = "NAME" -> <<"NAME", row.NAME>>

\* lines 507-510: the unique values of the column over the loaded layers
UniqueValues(layers, col) ==
    UNION {{Column(layers[l][j], col) : j \in DOMAIN layers[l]} :
              l \in DOMAIN layers}

\* lines 516-520: keep in every layer the rows whose column is chosen
FilterLayers(layers, col, chosen) ==
    [l \in DOMAIN layers |->
        SelectSeq(layers[l], LAMBDA row : Column(row, col) \in chosen)]

\* pd.concat(intersections_gdf, ignore_index=True): the rows of all frames
Concat(frames) == Flatten(frames)

\* lines 945-950: the columns written by to_csv
CsvRow(r) == <<r.ID, r.PUID, r.AMOUNT>>

\* lines 926-931: the table is replaced when the returned list is not empty
StoreResults(table, result) ==
    IF Len(result) # 0 THEN Concat(result) ELSE table

\* line 892: create_planning_unit_grid is called without its argument
\* planning_unit_grid; the call raises a TypeError that nothing catches
MenuCreateGrid ==
    /\ mpc = "menu"
    /\ mpc' = "crashed"
    /\ menu_msg' = "TypeError"
    /\ UNCHANGED <<menu_grid, conserv_layers, filtered_conserv_layers,
                   query_layers, intersections_gdf, intersections_df, saved>>
    /\ UNCHANGED <<engineVars, gridVars>>

\* line 903, load_convservation_layers: the files chosen are loaded, or the
\* user returns and the list is kept
MenuLoadLayers ==
    /\ mpc = "menu"
    /\ \/ \E files \in InputSeqs(LayerChoices, MaxFiles) \ {<<>>} :
              conserv_layers' = files
       \/ conserv_layers' = conserv_layers
    /\ UNCHANGED <<mpc, menu_grid, filtered_conserv_layers, query_layers,
                   intersections_gdf, intersections_df, saved, menu_msg>>
    /\ UNCHANGED <<engineVars, gridVars>>

\* lines 470-478: Select Conservation Features without layers returns [],
\* otherwise it starts from a copy of the loaded layers
MenuQuery ==
    /\ mpc = "menu"
    /\ IF ~(Len(conserv_layers) # 0)
       THEN /\ filtered_conserv_layers' = <<>>
            /\ menu_msg' = "No planning layers loaded."
            /\ UNCHANGED <<mpc, query_layers>>
       ELSE /\ query_layers' = conserv_layers
            /\ mpc' = "query"
            /\ UNCHANGED <<filtered_conserv_layers, menu_msg>>
    /\ UNCHANGED <<menu_grid, conserv_layers, intersections_gdf,
                   intersections_df, saved>>
    /\ UNCHANGED <<engineVars, gridVars>>

\* lines 503-585: one selection 1-4; get_user_selection returns the value
\* the user picked among the unique values of the column
QueryFilter ==
    /\ mpc = "query"
    /\ \E col \in QueryColumns :
         \E v \in UniqueValues(conserv_layers, col) :
           query_layers' = FilterLayers(query_layers, col, {v})
    /\ UNCHANGED <<mpc, menu_grid, conserv_layers, filtered_conserv_layers,
                   intersections_gdf, intersections_df, saved, menu_msg>>
    /\ UNCHANGED <<engineVars, gridVars>>

\* lines 587-594 and 908: selection 9, back in the main menu
QueryReturn ==
    /\ mpc = "query"
    /\ filtered_conserv_layers' = query_layers
    /\ query_layers' = <<>>
    /\ mpc' = "menu"
    /\ UNCHANGED <<menu_grid, conserv_layers,
                   intersections_gdf, intersections_df, saved, menu_msg>>
    /\ UNCHANGED <<engineVars, gridVars>>

\* lines 922-924: the call of calculate_overlap with the grid and the
\* loaded layers
MenuCalculate ==
    /\ mpc = "menu"
    /\ mpc' = "calculating"
    /\ planning_grid' = menu_grid
    /\ cons_layers' = conserv_layers
    /\ pc' = "idle"
    /\ failing' = {}
    /\ planning_grid_divisions' = <<>>
    /\ taskq' = <<>>
    /\ worker' = <<>>
    /\ outq' = <<>>
    /\ intersections' = <<>>
    /\ consumed' = <<>>
    /\ retval' = <<>>
    /\ log' = EmptyBag
    /\ UNCHANGED <<CORES, err>>
    /\ UNCHANGED <<menu_grid, conserv_layers, filtered_conserv_layers,
                   query_layers, intersections_gdf, intersections_df, saved,
                   menu_msg>>
    /\ UNCHANGED gridVars

\* lines 922-933 once calculate_overlap has returned
MenuStore ==
    /\ mpc = "calculating"
    /\ pc = "returned"
    /\ intersections_gdf' = retval
    /\ intersections_df' = StoreResults(intersections_df, retval)
    /\ mpc' = "menu"
    /\ pc' = "off"
    /\ planning_grid' = <<>>
    /\ cons_layers' = <<>>
    /\ retval' = <<>>
    /\ log' = EmptyBag
    /\ UNCHANGED <<menu_grid, conserv_layers, filtered_conserv_layers,
                   query_layers, saved, menu_msg>>
    /\ UNCHANGED <<CORES, failing, planning_grid_divisions, taskq, worker,
                   outq, intersections, consumed, err>>
    /\ UNCHANGED gridVars

\* lines 936-951: Save Results
MenuSave ==
    /\ mpc = "menu"
    /\ IF Len(intersections_df) = 0
       THEN /\ menu_msg' = "No results to save."
            /\ saved' = saved
       ELSE /\ saved' = [i \in DOMAIN intersections_df |->
                            CsvRow(intersections_df[i])]
            /\ menu_msg' = "none"
    /\ UNCHANGED <<mpc, menu_grid, conserv_layers, filtered_conserv_layers,
                   query_layers, intersections_gdf, intersections_df>>
    /\ UNCHANGED <<engineVars, gridVars>>

\* lines 954-956
MenuQuit ==
    /\ mpc = "menu"
    /\ mpc' = "quit"
    /\ UNCHANGED <<menu_grid, conserv_layers, filtered_conserv_layers,
                   query_layers, intersections_gdf, intersections_df, saved,
                   menu_msg>>
    /\ UNCHANGED <<engineVars, gridVars>>

\* Select Planning Units (lines 896-899) and View Layers (lines 912-914)
\* change nothing and are stuttering steps.
\* The grid of main_menu is only assigned at line 892, which raises: every
\* call of calculate_overlap from the menu has an empty grid and ends at
\* line 662 or 665, so these are the only steps of calculate_overlap here.
MenuNext ==
    \/ MenuCreateGrid
    \/ MenuLoadLayers
    \/ MenuQuery
    \/ QueryFilter
    \/ QueryReturn
    \/ MenuCalculate
    \/ ReturnNoLayers /\ mpc = "calculating" /\ UNCHANGED <<gridVars, menuVars>>
    \/ ReturnNoGrid /\ mpc = "calculating" /\ UNCHANGED <<gridVars, menuVars>>
    \/ MenuStore
    \/ MenuSave
    \/ MenuQuit

\* lines 849-865: the variables of main_menu before the first selection
MenuInit ==
    /\ mpc = "menu"
    /\ menu_grid = <<>>
    /\ conserv_layers = <<>>
    /\ filtered_conserv_layers = <<>>
    /\ query_layers = <<>>
    /\ intersections_gdf = <<>>
    /\ intersections_df = <<>>
    /\ saved = <<>>
    /\ menu_msg = "none"
    /\ pc = "off"
    /\ planning_grid = <<>>
    /\ cons_layers = <<>>
    /\ CORES \in 0..MaxCores
    /\ failing = {}
    /\ planning_grid_divisions = <<>>
    /\ taskq = <<>>
    /\ worker = <<>>
    /\ outq = <<>>
    /\ intersections = <<>>
    /\ consumed = <<>>
    /\ retval = <<>>
    /\ err = "none"
    /\ log = EmptyBag
    /\ gpc = "input"
    /\ bbx = <<0, 0, 0, 0>>
    /\ Area = 1
    /\ edge = 0
    /\ hex_centers = <<>>
    /\ c_x = 0
    /\ c_y = 0
    /\ v_start_idx = 0
    /\ planning_unit_grid = <<>>
    /\ gerr = "none"

SpecMenu == MenuInit /\ [][MenuNext]_vars

\* the menu never holds a grid, so calculate_overlap never dispatches there
MenuGridAlwaysEmpty == (mpc # "off") => (menu_grid = <<>> /\ ~(pc = "iterating"))

\* ------------------------------------------------------------------------
\* Derived notions used by the properties
\* ------------------------------------------------------------------------

\* the bag of the elements of a sequence
SeqToBag(s) ==
    [x \in {s[i] : i \in DOMAIN s} |-> Cardinality({i \in DOMAIN s : s[i] = x})]

\* the multiset of overlap records of a list of frames
Records(frames) ==
    LET rows == Flatten(frames)
    IN SeqToBag([i \in DOMAIN rows |-> RecordOf(rows[i])])

Dispatched == planning_grid_divisions # <<>>

\* the result of the run with a single worker: one partition, the whole grid
SingleWorkerResult == calculate(array_split(planning_grid, 1)[1], cons_layers)

\* C1: whenever calculate_overlap returns after dispatching CORES
\* partitions, the multiset of (PUID, ID, AMOUNT) records it returns is the
\* multiset returned with a single worker on the same grid and layers.
C1_PartitioningPreservesRecords ==
    (pc = "returned" /\ Dispatched)
        => Records(retval) = Records(SingleWorkerResult)

C1_Witness ==
    /\ pc = "returned"
    /\ Dispatched
    /\ CORES >= 2
    /\ consumed[1] = 2
    /\ BagCardinality(Records(retval)) >= 3
    /\ retval # SingleWorkerResult

\* C2: calculate_overlap returns only when every partition has been
\* processed and consumed; the returned list is then the results of the
\* partitions, each exactly once, in the order of completion.
C2_ReturnsAfterAllPartitionsOnce ==
    (pc = "returned" /\ Dispatched) =>
        /\ Len(consumed) = CORES
        /\ \A p \in 1..CORES :
               Cardinality({i \in DOMAIN consumed : consumed[i] = p}) = 1
        /\ taskq = <<>>
        /\ outq = <<>>
        /\ \A w \in DOMAIN worker : worker[w].state = "idle"
        /\ retval = Flatten([i \in DOMAIN consumed |->
                        calculate(planning_grid_divisions[consumed[i]],
                                  cons_layers)])

C2_Witness ==
    /\ pc = "returned"
    /\ Dispatched
    /\ CORES = MaxCores
    /\ consumed[1] = CORES
    /\ Len(Flatten(retval)) >= 2

\* C3 (as claimed): a geometry failure of one (partition, layer) pair never
\* makes calculate_overlap raise; the call returns the records of all the
\* other pairs.
C3_GeometryFailureContained ==
    (failing # {}) =>
        /\ pc # "raised"
        /\ (pc = "returned" /\ Dispatched) =>
              retval = Flatten([i \in DOMAIN consumed |->
                  Flatten([l \in DOMAIN cons_layers |->
                      IF IsEmpty(cons_layers[l]) \/ <<consumed[i], l>> \in failing
                      THEN <<>>
                      ELSE <<CalcLayer(planning_grid_divisions[consumed[i]],
                                       cons_layers[l])>>])])

\* C4: the grid is split into exactly CORES partitions, contiguous slices
\* in grid order whose sizes differ by at most one and whose concatenation
\* is the grid; every cell is in exactly one partition.
C4_ContiguousNearEqualPartitions ==
    Dispatched =>
        /\ Len(planning_grid_divisions) = CORES
        /\ Flatten(planning_grid_divisions) = planning_grid
        /\ \A i, j \in DOMAIN planning_grid_divisions :
               Len(planning_grid_divisions[i]) - Len(planning_grid_divisions[j]) <= 1
        /\ \A c \in DOMAIN planning_grid :
               Cardinality({i \in DOMAIN planning_grid_divisions :
                   \E k \in DOMAIN planning_grid_divisions[i] :
                       planning_grid_divisions[i][k] = planning_grid[c]}) = 1

C4_Witness ==
    /\ Dispatched
    /\ CORES >= 2
    /\ Len(planning_grid) % CORES # 0
    /\ \E i \in DOMAIN planning_grid_divisions :
           Len(planning_grid_divisions[i]) = 0

\* C5: with an empty layer list or an empty grid calculate_overlap never
\* raises, dispatches nothing, and returns an empty list after reporting
\* the missing input.
C5_EmptyInputReturnsEmpty ==
    (Len(cons_layers) = 0 \/ Len(planning_grid) = 0) =>
        /\ pc \in {"idle", "returned"}
        /\ ~Dispatched /\ taskq = <<>> /\ worker = <<>> /\ outq = <<>>
        /\ pc = "returned" =>
              /\ retval = <<>>
              /\ BagCardinality(log) = 1
              /\ \/ BagIn(<<"NoLayers", 0, 0>>, log)
                 \/ BagIn(<<"NoGrid", 0, 0>>, log)

C5_Witness ==
    /\ pc = "returned"
    /\ Len(planning_grid) = 0
    /\ Len(cons_layers) = MaxLayers
    /\ BagIn(<<"NoGrid", 0, 0>>, log)

\* C6 (as claimed): a non-positive cell area or a degenerate bounding box
\* is rejected with InvalidParameter and no cell is emitted; a worker count
\* below 1 is rejected with InvalidParameter and nothing is dispatched.
C6_InvalidParametersRejected ==
    /\ (Area <= 0 \/ x_min(bbx) = x_max(bbx) \/ y_min(bbx) = y_max(bbx)) =>
          /\ hex_centers = <<>>
          /\ planning_unit_grid = <<>>
          /\ gpc # "input" => (gpc = "raised" /\ gerr = "InvalidParameter")
    /\ (CORES < 1) =>
          /\ ~Dispatched
          /\ pc # "idle" => (pc = "raised" /\ err = "InvalidParameter")

\* number of "Skipping empty conservation layer." messages for layer l
EmptyLayerReports(l) ==
    Cardinality({p \in 1..MaxCores : BagIn(<<"EmptyLayer", p, l>>, log)})

\* C7 (as claimed): when calculate_overlap has returned, every empty layer
\* has been reported exactly once for the whole call, whatever the number
\* of partitions.
C7_EmptyLayerReportedOnce ==
    (pc = "returned" /\ Dispatched) =>
        \A l \in DOMAIN cons_layers :
            IsEmpty(cons_layers[l]) => EmptyLayerReports(l) = 1

\* centre of a hexagon: the middle of two opposite vertices
Centre(poly) ==
    <<(poly[1][1] + poly[4][1]) \div 2, (poly[1][2] + poly[4][2]) \div 2>>

\* C8: when the grid is built, the PUIDs are exactly 1..N without
\* duplicate, the cell with PUID i is the hexagon around the i-th emitted
\* centre, and the centres are emitted in strictly ascending x, and within
\* one x in strictly ascending y.
C8_PUIDsDenseInEmissionOrder ==
    (gpc = "done") =>
        LET N == Len(hex_centers)
        IN /\ Len(planning_unit_grid) = N
           /\ {planning_unit_grid[i].PUID : i \in 1..N} = 1..N
           /\ \A i, j \in 1..N :
                  i # j => planning_unit_grid[i].PUID # planning_unit_grid[j].PUID
           /\ \A i \in 1..N :
                  \E k \in 1..N :
                      /\ planning_unit_grid[k].PUID = i
                      /\ Centre(planning_unit_grid[k].geometry) = hex_centers[i]
           /\ \A i, j \in 1..N :
                  i < j =>
                      \/ hex_centers[i][1] < hex_centers[j][1]
                      \/ /\ hex_centers[i][1] = hex_centers[j][1]
                         /\ hex_centers[i][2] < hex_centers[j][2]

C8_Witness ==
    /\ gpc = "done"
    /\ Len(planning_unit_grid) >= 6
    /\ planning_unit_grid[6].PUID = 6
    /\ hex_centers[1][1] < hex_centers[6][1]
    /\ hex_centers[1][1] = hex_centers[2][1]

\* (b - a) x (p - a)
Cross(a, b, p) ==
    (b[1] - a[1]) * (p[2] - a[2]) - (b[2] - a[2]) * (p[1] - a[1])

Dbl(pt) == <<2 * pt[1], 2 * pt[2]>>
NextVertex(poly, k) == poly[(k % Len(poly)) + 1]

\* the point q, given in half units, is inside the polygon or on its border
Contains2(poly, q) ==
    \A k \in DOMAIN poly :
        Cross(Dbl(poly[k]), Dbl(NextVertex(poly, k)), q) >= 0

Inside(poly, p) ==
    \A k \in DOMAIN poly : Cross(poly[k], NextVertex(poly, k), p) >= 0
StrictlyInside(poly, p) ==
    \A k \in DOMAIN poly : Cross(poly[k], NextVertex(poly, k), p) > 0

\* every point of the bounding box with half-unit coordinates
SamplePoints(b) ==
    {<<qx, qy>> : qx \in (2 * x_min(b))..(2 * x_max(b)),
                  qy \in (2 * y_min(b))..(2 * y_max(b))}

\* Two translates of a centrally symmetric hexagon H overlap in their
\* interior iff the difference of their centres is strictly inside 2H, and
\* they touch iff it is on the border of 2H.
CentreDiff(g1, g2) ==
    <<Centre(g1)[1] - Centre(g2)[1], Centre(g1)[2] - Centre(g2)[2]>>
Overlapping(l, g1, g2) ==
    StrictlyInside(create_hexagon(2 * l, 0, 0), CentreDiff(g1, g2))
Touching(l, g1, g2) ==
    /\ Inside(create_hexagon(2 * l, 0, 0), CentreDiff(g1, g2))
    /\ ~Overlapping(l, g1, g2)

Edges(poly) == {{poly[k], NextVertex(poly, k)} : k \in DOMAIN poly}

\* C9: when the grid is built, every point of the bounding box lies in some
\* hexagon or on its border, no two hexagons overlap, and two hexagons that
\* touch have exactly one edge in common.
C9_GridCoversBoxEdgeToEdge ==
    (gpc = "done") =>
        /\ \A q \in SamplePoints(bbx) :
               \E i \in DOMAIN planning_unit_grid :
                   Contains2(planning_unit_grid[i].geometry, q)
        /\ \A i, j \in DOMAIN planning_unit_grid :
               i < j =>
                 LET g1 == planning_unit_grid[i].geometry
                     g2 == planning_unit_grid[j].geometry
                 IN /\ ~Overlapping(edge, g1, g2)
                    /\ Touching(edge, g1, g2) =>
                          Cardinality(Edges(g1) \cap Edges(g2)) = 1

C9_Witness ==
    /\ gpc = "done"
    /\ x_min(bbx) < x_max(bbx)
    /\ y_min(bbx) < y_max(bbx)
    /\ x_min(bbx) % h_step(edge) # 0
    /\ \E i, j \in DOMAIN planning_unit_grid :
           /\ i < j
           /\ Touching(edge, planning_unit_grid[i].geometry,
                       planning_unit_grid[j].geometry)
           /\ Centre(planning_unit_grid[i].geometry)[1]
                  # Centre(planning_unit_grid[j].geometry)[1]

RECURSIVE ShoelaceSum(_, _)
ShoelaceSum(poly, k) ==
    IF k = 0 THEN 0
    ELSE poly[k][1] * NextVertex(poly, k)[2]
           - NextVertex(poly, k)[1] * poly[k][2] + ShoelaceSum(poly, k - 1)

\* twice the area of the polygon, in unit rectangles: 24 per square metre
PolygonArea24(poly) == Abs(ShoelaceSum(poly, Len(poly)))

\* C10 (as claimed): for a positive cell area every hexagon of the grid has
\* 6 vertices and the requested area, (3*sqrt(3)/2) * edge^2 = Area.
C10_HexagonAreaIsCellArea ==
    (gpc = "done" /\ Area > 0) =>
        /\ edge * edge = 4 * Area
        /\ \A i \in DOMAIN planning_unit_grid :
               /\ Len(planning_unit_grid[i].geometry) = 6
               /\ PolygonArea24(planning_unit_grid[i].geometry) = 24 * Area

\* ------------------------------------------------------------------------
\* Columns and rows of the emitted grid
\* ------------------------------------------------------------------------
ColumnXs == {hex_centers[i][1] : i \in DOMAIN hex_centers}
ColumnYs(x) == {hex_centers[i][2] : i \in {k \in DOMAIN hex_centers :
                                               hex_centers[k][1] = x}}
StartRow(x) == SetMin(ColumnYs(x))

\* m is the multiple of step that is strictly below a and at most one step
\* below it
MultipleJustBelow(m, a, step) ==
    /\ m % step = 0
    /\ m < a
    /\ a - m <= step

\* the largest multiple of step that is <= a
FloorMultiple(a, step) == (a \div step) * step

\* C13 (as claimed): the first column is at the largest multiple of h_step
\* that is <= xmin, minus h_step, and the base start row at the largest
\* multiple of v_step that is <= ymin, minus v_step.
C13_StartIsFloorMultipleMinusStep ==
    (gpc = "done") =>
        /\ hex_centers[1][1] = FloorMultiple(x_min(bbx), h_step(edge)) - h_step(edge)
        /\ SetMin({StartRow(x) : x \in ColumnXs})
               = FloorMultiple(y_min(bbx), v_step(edge)) - v_step(edge)

\* C13 (amended): the first column is at the largest multiple of h_step
\* strictly below xmin and the base start row at the largest multiple of
\* v_step strictly below ymin: one step below xmin (ymin) when it is an
\* exact multiple, the largest multiple <= xmin (ymin) itself when it is
\* not.
C13_StartIsMultipleJustBelow ==
    (gpc = "done") =>
        /\ MultipleJustBelow(hex_centers[1][1], x_min(bbx), h_step(edge))
        /\ MultipleJustBelow(SetMin({StartRow(x) : x \in ColumnXs}),
                             y_min(bbx), v_step(edge))
        /\ hex_centers[1][1] =
               IF x_min(bbx) % h_step(edge) = 0
               THEN x_min(bbx) - h_step(edge)
               ELSE FloorMultiple(x_min(bbx), h_step(edge))
        /\ SetMin({StartRow(x) : x \in ColumnXs}) =
               IF y_min(bbx) % v_step(edge) = 0
               THEN y_min(bbx) - v_step(edge)
               ELSE FloorMultiple(y_min(bbx), v_step(edge))

C13_Witness ==
    /\ gpc = "done"
    /\ x_min(bbx) % h_step(edge) # 0
    /\ y_min(bbx) % v_step(edge) = 0
    /\ hex_centers[1][1] = FloorMultiple(x_min(bbx), h_step(edge))

\* C14: in the emitted grid the columns are 1.5*edge apart, the centres of
\* a column are sqrt(3)*edge apart, the start rows of two consecutive
\* columns differ by half of that, and columns two apart start at the same
\* row.
C14_ColumnsStaggeredByHalfStep ==
    (gpc = "done") =>
        /\ \A x \in ColumnXs :
               /\ x = hex_centers[1][1] \/ (x - (3 * edge) \div 2) \in ColumnXs
               /\ \A y \in ColumnYs(x) :
                      y = StartRow(x) \/ (y - 2 * edge) \in ColumnYs(x)
        /\ \A x1, x2 \in ColumnXs :
               /\ (x2 - x1 = (3 * edge) \div 2) =>
                      Abs(StartRow(x2) - StartRow(x1)) = edge
               /\ (x2 - x1 = 3 * edge) => StartRow(x2) = StartRow(x1)
        /\ \A i \in DOMAIN hex_centers :
               i > 1 =>
                   \/ /\ hex_centers[i][1] = hex_centers[i - 1][1]
                      /\ hex_centers[i][2] = hex_centers[i - 1][2] + 2 * edge
                   \/ /\ hex_centers[i][1] = hex_centers[i - 1][1] + (3 * edge) \div 2
                      /\ hex_centers[i][2] = StartRow(hex_centers[i][1])

C14_Witness ==
    /\ gpc = "done"
    /\ Cardinality(ColumnXs) >= 3
    /\ \E x \in ColumnXs : Cardinality(ColumnYs(x)) >= 2
    /\ StartRow(hex_centers[1][1]) < StartRow(hex_centers[1][1] + (3 * edge) \div 2)

\* C16: every emitted centre lies on the lattice fixed by the edge alone:
\* x = k*h_step, and y is a multiple of v_step when k is odd and a multiple
\* of v_step plus v_step/2 when k is even; the test at line 100 is always
\* true, so the else branch of line 103 is never taken.
C16_CentresOnGlobalLattice ==
    (gpc \in {"loop", "done"}) =>
        /\ v_start(bbx, edge) - (v_step(edge) \div 2) < y_min(bbx)
        /\ \A i \in DOMAIN hex_centers :
               LET x == hex_centers[i][1]
                   y == hex_centers[i][2]
                   k == x \div ((3 * edge) \div 2)
               IN /\ x % ((3 * edge) \div 2) = 0
                  /\ (k % 2 = 1) => y % (2 * edge) = 0
                  /\ (k % 2 = 0) => y % (2 * edge) = edge

C16_Witness ==
    /\ gpc = "done"
    /\ hex_centers[1][1] < 0
    /\ (hex_centers[1][1] \div ((3 * edge) \div 2)) % 2 = 1
    /\ \E i \in DOMAIN hex_centers : hex_centers[i][1] > 0
    /\ y_min(bbx) % v_step(edge) # 0

\* C18: the loops of create_hexgrid terminate for every box, corners in
\* either order, zero width or height included, and every side > 0; each
\* inner iteration increases c_y and each outer iteration increases c_x;
\* every centre has x < xmax + h_step and y < ymax + v_step, and at least
\* one centre is emitted.
C18_HexgridTerminates ==
    /\ <>(gpc \in {"done", "raised"})
    /\ [](gpc = "raised" => Area = 0)
    /\ [](\A i \in DOMAIN hex_centers :
             /\ hex_centers[i][1] < x_max(bbx) + (3 * edge) \div 2
             /\ hex_centers[i][2] < y_max(bbx) + 2 * edge)
    /\ [](gpc = "done" => Len(hex_centers) >= 1)
    /\ [][gpc = "loop" =>
             \/ c_y' > c_y /\ c_x' = c_x
             \/ c_x' > c_x
             \/ gpc' = "done"]_vars

C18_Witness ==
    /\ gpc = "done"
    /\ bbx[1] > bbx[3]
    /\ bbx[2] = bbx[4]
    /\ Len(hex_centers) >= 2

\* the rows of the returned frames for cell c and feature id d
RowsOf(c, d) ==
    LET rows == Flatten(retval)
    IN {i \in DOMAIN rows : rows[i].PUID = c /\ rows[i].ID = d}

\* the features with id d, over all layers, that satisfy Meets with cell c
PairsOf(c, d, Meets(_, _)) ==
    {lj \in {<<l, j>> : l \in DOMAIN cons_layers, j \in 1..2} :
        /\ lj[2] \in DOMAIN cons_layers[lj[1]]
        /\ cons_layers[lj[1]][lj[2]].ID = d
        /\ Meets(planning_grid[c].geometry, cons_layers[lj[1]][lj[2]].geometry)}

NonEmptyMeet(g1, g2) == g1 \cap g2 # {}
PolygonalMeet(g1, g2) == IsPolygonal(g1 \cap g2)

FeatureIds == {f.ID : f \in {Fa, Fb, Fc, Fd}}

\* every returned row of cell c and feature d carries the area of their
\* intersection rounded to a nearest integer
RowsRounded(c, d) ==
    \A i \in RowsOf(c, d) :
        LET row == Flatten(retval)[i]
            f == CHOOSE g \in {Fa, Fb, Fc, Fd} : g.ID = d
            h == AreaHalves(planning_grid[c].geometry \cap f.geometry)
        IN /\ Abs(2 * row.AMOUNT - h) <= 1
           /\ row.geometry = planning_grid[c].geometry \cap f.geometry

RECURSIVE DirectFrames(_, _)
DirectFrames(part, layers) ==
    IF layers = <<>> THEN <<>>
    ELSE IF Len(Head(layers)) = 0 THEN DirectFrames(part, Tail(layers))
    ELSE <<overlay(part, Head(layers))>> \o DirectFrames(part, Tail(layers))

LayerIds(layers) ==
    UNION {{layers[l][j].ID : j \in DOMAIN layers[l]} : l \in DOMAIN layers}

\* Select Conservation Features has returned a list of filtered layers
FilterApplied == Len(filtered_conserv_layers) # 0

\* the features of the loaded layers that the filter removed
RemovedIds == LayerIds(conserv_layers) \ LayerIds(filtered_conserv_layers)

\* C11: when an attribute filter has been applied, Calculate Overlap of the
\* main menu computes the overlap with the filtered layers only, and no row
\* of its result refers to a feature the filter removed.
C11_OverlapUsesFilteredLayers ==
    (mpc = "calculating" /\ FilterApplied) =>
        /\ cons_layers = filtered_conserv_layers
        /\ \A k \in DOMAIN retval :
               \A i \in DOMAIN retval[k] : retval[k][i].ID \notin RemovedIds

\* tables that main_menu may hold when Calculate Overlap returns
SampleTables ==
    {<<>>, <<[PUID |-> 1, ID |-> 1, AMOUNT |-> 1, geometry |-> 0..2]>>}

====
